---- MODULE Spec2Model ----
(***************************************************************************)
(* Model of src/main.rs: a hyper server whose route() dispatches           *)
(* GET /basic and GET /double to two handlers that fetch JSON from a       *)
(* to-do upstream and a cat-fact upstream.                                 *)
(*                                                                         *)
(* Every inbound request is one task.  An action is the code a task runs   *)
(* between two await points (client.request(..).await, to_bytes(..).await);*)
(* the upstreams are the environment: they answer with any status and any  *)
(* body, fail, or stay silent.                                             *)
(*                                                                         *)
(* Text is a sequence of one-character strings, so that format! and the    *)
(* URL builders are real concatenations.  URLs are sequences of fragments. *)
(***************************************************************************)
EXTENDS Naturals, Sequences, FiniteSets

\* ------------------------------------------------------------------ bounds
NReq == 2                      \* inbound requests (tasks) in one run

Reqs == 1..NReq

\* --------------------------------------------------------------- constants
CATS_URL == <<"https://", "cat-fact.herokuapp.com">>
TODO_URL == <<"https://", "jsonplaceholder.typicode.com">>
BAD_URL  == <<"not a url">>

StatusOK == 200
StatusNotFound == 404

Methods == {"GET", "POST"}
Paths == {"/basic", "/double", "/nonexistent"}
UpstreamStatuses == {200, 500}

\* ------------------------------------------------------------------- text
\* the titles and fact texts the upstreams send: a plain word, and a text
\* with the separators of double's format embedded
TextCat == <<"c", "a", "t">>
TextSep == <<"a", ",", " ", "b", ":", " ">>
Texts == {TextCat, TextSep}

\* ------------------------------------------------------------ JSON bodies
\* A body is either not JSON at all, or a JSON object whose "title" and
\* "text" members are each absent, a number, or a string.
Absent == [type |-> "absent", val |-> <<>>]
Number == [type |-> "number", val |-> <<>>]
String(s) == [type |-> "string", val |-> s]

JsonObject(title, text) == [valid |-> TRUE, title |-> title, text |-> text]
NotJson == [valid |-> FALSE, title |-> Absent, text |-> Absent]

\* the bodies an upstream sends: garbage, the two shapes of the tests (a
\* title only, a text only), an object carrying both members with different
\* strings, and an object whose members have the wrong type
Bodies ==
    { NotJson,
      JsonObject(String(TextCat), Absent),
      JsonObject(Absent, String(TextSep)),
      JsonObject(String(TextSep), String(TextCat)),
      JsonObject(Number, Number) }

\* struct ServerCfg
ServerCfg(cats, todo) == [cats_url |-> cats, todo_url |-> todo]

\* run_server's configuration, and one whose to-do base URL is malformed
\* (_run_server takes any ServerCfg)
Cfgs == { ServerCfg(CATS_URL, TODO_URL),
          ServerCfg(CATS_URL, BAD_URL) }

\* ------------------------------------------------------------ Result<T>
Ok(v) == [ok |-> TRUE, val |-> v]
Err == [ok |-> FALSE]

\* variant: a missing or malformed title decodes to the default (empty) title
from_slice_TODO_default(b) ==
    IF b.valid /\ b.title.type = "string"
    THEN Ok([title |-> b.title.val])
    ELSE Ok([title |-> <<>>])

\* #[derive(Deserialize)] struct TODO { title: String } via from_slice
from_slice_TODO(b) ==
    IF b.valid /\ b.title.type = "string"
    THEN Ok([title |-> b.title.val])
    ELSE Err

\* #[derive(Deserialize)] struct CatFact { text: String } via from_slice
from_slice_CatFact(b) ==
    IF b.valid /\ b.text.type = "string"
    THEN Ok([text |-> b.text.val])
    ELSE Err

get_cats_url(base_url) == base_url \o <<"/facts/random">>

get_todo_url(base_url) == base_url \o <<"/todos/1">>

\* variant: the separator lacks its space
FormatDoubleNoSpace(title, text) ==
    <<"T", "o", "d", "o", ":", " ">> \o title
      \o <<",", "C", "a", "t", " ", "F", "a", "c", "t", ":", " ">> \o text

\* format!("Todo: {}, Cat Fact: {}", todo.title, fact.text)
FormatDouble(title, text) ==
    <<"T", "o", "d", "o", ":", " ">> \o title
      \o <<",", " ", "C", "a", "t", " ", "F", "a", "c", "t", ":", " ">> \o text

\* Request::builder().method(GET).uri(uri).body(Body::empty()): the builder
\* rejects a uri that does not parse.
UriParses(uri) == Len(uri) >= 2 /\ uri[1] \in {"http://", "https://"}

\* variant: the match looks at the path only
RouteArmAnyMethod(method, path) ==
    IF path = "/basic" THEN "basic"
    ELSE IF path = "/double" THEN "double"
    ELSE "not_found"

\* the match of route(): which arm a (method, path) pair takes
RouteArm(method, path) ==
    IF method = "GET" /\ path = "/basic" THEN "basic"
    ELSE IF method = "GET" /\ path = "/double" THEN "double"
    ELSE "not_found"

\* ---------------------------------------------------------------- state
VARIABLES
    cfg,        \* Arc<ServerCfg> built by _run_server
    client,     \* the HttpClient built by init_client, cloned per request
    pc,         \* per task: the await point it is suspended at
    req,        \* per task: the inbound request, <<>> before it arrives
    response,   \* per task: route's local `response`, <<>> when not live
    res,        \* per task: the upstream Response being read, <<>> if none
    todo,       \* per task: double's decoded `todo`, <<>> if none
    result,     \* per task: what route returned
    outbound,   \* outbound calls issued and not yet completed
    hung,       \* tasks whose outstanding upstream call will never progress
    trace       \* per task: history of its outbound calls and their replies

vars == <<cfg, client, pc, req, response, res, todo, result, outbound, hung, trace>>

Pending  == [kind |-> "pending", status |-> 0, body |-> <<>>]
Failed   == [kind |-> "err", status |-> 0, body |-> <<>>]
Returned(resp) == [kind |-> "ok", status |-> resp.status, body |-> resp.body]

\* history events; the status of a response is not part of the history
EvCall(uri)   == [ev |-> "call", uri |-> uri, body |-> NotJson]
EvBuildErr(uri) == [ev |-> "builderr", uri |-> uri, body |-> NotJson]
EvResp        == [ev |-> "resp", uri |-> <<>>, body |-> NotJson]
EvNetErr      == [ev |-> "neterr", uri |-> <<>>, body |-> NotJson]
EvBody(b)     == [ev |-> "body", uri |-> <<>>, body |-> b]
EvReadErr     == [ev |-> "readerr", uri |-> <<>>, body |-> NotJson]

\* fn init_client
init_client == [connector |-> "https"]

\* Response::new(Body::empty())
NewResponse == [status |-> StatusOK, body |-> <<>>]

\* variant: the default arm leaves the status untouched
NotFoundResponseDefault == NewResponse

\* route's default arm: *response.status_mut() = StatusCode::NOT_FOUND
NotFoundResponse == [NewResponse EXCEPT !.status = StatusNotFound]

\* do_get_req, up to its await: build the request
BuildRequest(uri) ==
    IF UriParses(uri) THEN Ok([method |-> "GET", uri |-> uri]) ELSE Err

\* variant: a non-2xx response is turned into an error
client_request_outcome_checked(status) ==
    IF status = StatusOK THEN Ok([status |-> status]) ELSE Err

\* do_get_req, after its await: `let res = client.request(request).await?;
\* Ok(res)` hands back whatever response arrived, whatever its status
client_request_outcome(status) == Ok([status |-> status])

\* variant: the title is labelled as in double
basic_outcome_labelled(body) ==
    LET d == from_slice_TODO(body)
    IN  IF d.ok THEN Ok(<<"T", "o", "d", "o", ":", " ">> \o d.val.title) ELSE Err

\* basic, after the body is read: decode and return the title as the body
basic_outcome(body) ==
    LET d == from_slice_TODO(body)
    IN  IF d.ok THEN Ok(d.val.title) ELSE Err

\* variant: an undecodable cat fact falls back to the to-do title alone
double_outcome_partial(t, body) ==
    LET d == from_slice_CatFact(body)
    IN  IF d.ok THEN Ok(FormatDouble(t.title, d.val.text))
        ELSE Ok(<<"T", "o", "d", "o", ":", " ">> \o t.title)

\* double, after the cat-fact body is read: decode and format
double_outcome(t, body) ==
    LET d == from_slice_CatFact(body)
    IN  IF d.ok THEN Ok(FormatDouble(t.title, d.val.text)) ELSE Err

\* variant: requests are served one at a time behind a hung one
ReadySerial(r) ==
    r \notin hung /\ (\E c \in outbound : c.owner = r) /\ hung = {}

\* the server polls every task whose I/O is ready, independently of the others
Ready(r) == r \notin hung /\ \E c \in outbound : c.owner = r

Calls(r) == {c \in outbound : c.owner = r}

Init ==
    /\ cfg \in Cfgs
    /\ client = init_client
    /\ pc = [r \in Reqs |-> "idle"]
    /\ req = [r \in Reqs |-> <<>>]
    /\ response = [r \in Reqs |-> <<>>]
    /\ res = [r \in Reqs |-> <<>>]
    /\ todo = [r \in Reqs |-> <<>>]
    /\ result = [r \in Reqs |-> Pending]
    /\ outbound = {}
    /\ hung = {}
    /\ trace = [r \in Reqs |-> <<>>]

\* a `?` inside the handler: route returns the error, its locals are dropped
Abort(r, event) ==
    /\ pc' = [pc EXCEPT ![r] = "returned"]
    /\ result' = [result EXCEPT ![r] = Failed]
    /\ response' = [response EXCEPT ![r] = <<>>]
    /\ res' = [res EXCEPT ![r] = <<>>]
    /\ todo' = [todo EXCEPT ![r] = <<>>]
    /\ outbound' = outbound \ Calls(r)
    /\ trace' = [trace EXCEPT ![r] = Append(@, event)]

\* variant: double issues both upstream calls at once and joins them
RouteConcurrent(r, method, path) ==
    /\ pc[r] = "idle"
    /\ req' = [req EXCEPT ![r] = <<[method |-> method, path |-> path]>>]
    /\ LET arm == RouteArm(method, path)
           uri == get_todo_url(cfg.todo_url)
           curi == get_cats_url(cfg.cats_url)
       IN  IF arm = "not_found"
           THEN /\ response' = [response EXCEPT ![r] = <<NotFoundResponse>>]
                /\ result' = [result EXCEPT ![r] = Returned(NotFoundResponse)]
                /\ pc' = [pc EXCEPT ![r] = "returned"]
                /\ UNCHANGED <<res, todo, outbound, trace>>
           ELSE IF BuildRequest(uri).ok
           THEN /\ response' = [response EXCEPT ![r] = <<NewResponse>>]
                /\ outbound' = outbound \cup
                        IF arm = "basic" THEN {[owner |-> r, uri |-> uri]}
                        ELSE {[owner |-> r, uri |-> uri], [owner |-> r, uri |-> curi]}
                /\ trace' = [trace EXCEPT ![r] =
                        IF arm = "basic" THEN Append(@, EvCall(uri))
                        ELSE @ \o <<EvCall(uri), EvCall(curi)>>]
                /\ pc' = [pc EXCEPT ![r] =
                        IF arm = "basic" THEN "basic_req" ELSE "todo_req"]
                /\ UNCHANGED <<res, todo, result>>
           ELSE Abort(r, EvBuildErr(uri))
    /\ UNCHANGED <<cfg, client, hung>>

\* route, from its entry to its first await (or to its return)
Route(r, method, path) ==
    /\ pc[r] = "idle"
    /\ req' = [req EXCEPT ![r] = <<[method |-> method, path |-> path]>>]
    /\ LET arm == RouteArm(method, path)
           uri == get_todo_url(cfg.todo_url)
       IN  IF arm = "not_found"
           THEN /\ response' = [response EXCEPT ![r] = <<NotFoundResponse>>]
                /\ result' = [result EXCEPT ![r] = Returned(NotFoundResponse)]
                /\ pc' = [pc EXCEPT ![r] = "returned"]
                /\ UNCHANGED <<res, todo, outbound, trace>>
           ELSE IF BuildRequest(uri).ok
           THEN /\ response' = [response EXCEPT ![r] = <<NewResponse>>]
                /\ outbound' = outbound \cup {[owner |-> r, uri |-> uri]}
                /\ trace' = [trace EXCEPT ![r] = Append(@, EvCall(uri))]
                /\ pc' = [pc EXCEPT ![r] =
                        IF arm = "basic" THEN "basic_req" ELSE "todo_req"]
                /\ UNCHANGED <<res, todo, result>>
           ELSE Abort(r, EvBuildErr(uri))
    /\ UNCHANGED <<cfg, client, hung>>

ReqPcs == {"basic_req", "todo_req", "cats_req"}
BodyPcs == {"basic_body", "todo_body", "cats_body"}

BodyPcOf(p) ==
    IF p = "basic_req" THEN "basic_body"
    ELSE IF p = "todo_req" THEN "todo_body" ELSE "cats_body"

\* client.request(request).await completes with a response
ClientResponse(r, status) ==
    /\ pc[r] \in ReqPcs
    /\ Ready(r)
    /\ LET o == client_request_outcome(status)
       IN  IF o.ok
           THEN /\ res' = [res EXCEPT ![r] = <<o.val>>]
                /\ pc' = [pc EXCEPT ![r] = BodyPcOf(pc[r])]
                /\ trace' = [trace EXCEPT ![r] = Append(@, EvResp)]
                /\ UNCHANGED <<response, todo, result, outbound>>
           ELSE Abort(r, EvResp)
    /\ UNCHANGED <<cfg, client, req, hung>>

\* client.request(request).await completes with an error
ClientError(r) ==
    /\ pc[r] \in ReqPcs
    /\ Ready(r)
    /\ Abort(r, EvNetErr)
    /\ UNCHANGED <<cfg, client, req, hung>>

\* to_bytes(..).await completes with an error
BodyError(r) ==
    /\ pc[r] \in BodyPcs
    /\ Ready(r)
    /\ Abort(r, EvReadErr)
    /\ UNCHANGED <<cfg, client, req, hung>>

\* basic: the body is read, decoded, and route returns
BasicBody(r, body) ==
    /\ pc[r] = "basic_body"
    /\ Ready(r)
    /\ LET o == basic_outcome(body)
       IN  IF o.ok
           THEN /\ response' = [response EXCEPT ![r] =
                        <<[response[r][1] EXCEPT !.body = o.val]>>]
                /\ result' = [result EXCEPT ![r] =
                        Returned([response[r][1] EXCEPT !.body = o.val])]
                /\ pc' = [pc EXCEPT ![r] = "returned"]
                /\ res' = [res EXCEPT ![r] = <<>>]
                /\ outbound' = outbound \ Calls(r)
                /\ trace' = [trace EXCEPT ![r] = Append(@, EvBody(body))]
                /\ UNCHANGED todo
           ELSE Abort(r, EvBody(body))
    /\ UNCHANGED <<cfg, client, req, hung>>

\* variant: the decoded to-do is kept in one slot shared by all tasks
DoubleTodoBodyShared(r, body) ==
    /\ pc[r] = "todo_body"
    /\ Ready(r)
    /\ LET d == from_slice_TODO(body)
           uri == get_cats_url(cfg.cats_url)
       IN  IF d.ok /\ BuildRequest(uri).ok
           THEN /\ todo' = [q \in Reqs |->
                        IF q = r \/ todo[q] # <<>> THEN <<d.val>> ELSE todo[q]]
                /\ res' = [res EXCEPT ![r] = <<>>]
                /\ outbound' = (outbound \ Calls(r)) \cup {[owner |-> r, uri |-> uri]}
                /\ trace' = [trace EXCEPT ![r] = @ \o <<EvBody(body), EvCall(uri)>>]
                /\ pc' = [pc EXCEPT ![r] = "cats_req"]
                /\ UNCHANGED <<response, result>>
           ELSE IF d.ok
           THEN /\ Abort(r, EvBuildErr(uri))
           ELSE Abort(r, EvBody(body))
    /\ UNCHANGED <<cfg, client, req, hung>>

\* double: the to-do body is read and decoded, the cat-fact call is issued
DoubleTodoBody(r, body) ==
    /\ pc[r] = "todo_body"
    /\ Ready(r)
    /\ LET d == from_slice_TODO(body)
           uri == get_cats_url(cfg.cats_url)
       IN  IF d.ok /\ BuildRequest(uri).ok
           THEN /\ todo' = [todo EXCEPT ![r] = <<d.val>>]
                /\ res' = [res EXCEPT ![r] = <<>>]
                /\ outbound' = (outbound \ Calls(r)) \cup {[owner |-> r, uri |-> uri]}
                /\ trace' = [trace EXCEPT ![r] = @ \o <<EvBody(body), EvCall(uri)>>]
                /\ pc' = [pc EXCEPT ![r] = "cats_req"]
                /\ UNCHANGED <<response, result>>
           ELSE IF d.ok
           THEN /\ Abort(r, EvBuildErr(uri))
           ELSE Abort(r, EvBody(body))
    /\ UNCHANGED <<cfg, client, req, hung>>

\* double: the cat-fact body is read, decoded, formatted, and route returns
DoubleCatsBody(r, body) ==
    /\ pc[r] = "cats_body"
    /\ Ready(r)
    /\ LET o == double_outcome(todo[r][1], body)
       IN  IF o.ok
           THEN /\ response' = [response EXCEPT ![r] =
                        <<[response[r][1] EXCEPT !.body = o.val]>>]
                /\ result' = [result EXCEPT ![r] =
                        Returned([response[r][1] EXCEPT !.body = o.val])]
                /\ pc' = [pc EXCEPT ![r] = "returned"]
                /\ res' = [res EXCEPT ![r] = <<>>]
                /\ todo' = [todo EXCEPT ![r] = <<>>]
                /\ outbound' = outbound \ Calls(r)
                /\ trace' = [trace EXCEPT ![r] = Append(@, EvBody(body))]
           ELSE Abort(r, EvBody(body))
    /\ UNCHANGED <<cfg, client, req, hung>>

\* the upstream serving the task's outstanding call goes silent for good
UpstreamHang(r) ==
    /\ pc[r] \in ReqPcs \cup BodyPcs
    /\ r \notin hung
    /\ hung' = hung \cup {r}
    /\ UNCHANGED <<cfg, client, pc, req, response, res, todo, result, outbound, trace>>

\* every step a suspended task can take
Progress(r) ==
    \/ \E s \in UpstreamStatuses : ClientResponse(r, s)
    \/ ClientError(r)
    \/ BodyError(r)
    \/ \E b \in Bodies : BasicBody(r, b)
    \/ \E b \in Bodies : DoubleTodoBody(r, b)
    \/ \E b \in Bodies : DoubleCatsBody(r, b)

Next ==
    \/ \E r \in Reqs, m \in Methods, p \in Paths : Route(r, m, p)
    \/ \E r \in Reqs, s \in UpstreamStatuses : ClientResponse(r, s)
    \/ \E r \in Reqs : ClientError(r)
    \/ \E r \in Reqs : BodyError(r)
    \/ \E r \in Reqs, b \in Bodies : BasicBody(r, b)
    \/ \E r \in Reqs, b \in Bodies : DoubleTodoBody(r, b)
    \/ \E r \in Reqs, b \in Bodies : DoubleCatsBody(r, b)
    \/ \E r \in Reqs : UpstreamHang(r)

Spec == Init /\ [][Next]_vars

\* the runtime polls a task whose I/O is ready; an upstream that is not hung
\* eventually answers, with a response or an error
FairSpec == Spec /\ \A r \in Reqs : WF_vars(Progress(r))

\* ------------------------------------------------- reading the history
IsGetBasic(r)  == req[r] # <<>> /\ req[r][1].method = "GET" /\ req[r][1].path = "/basic"
IsGetDouble(r) == req[r] # <<>> /\ req[r][1].method = "GET" /\ req[r][1].path = "/double"

TodoEndpoint == cfg.todo_url \o <<"/todos/1">>
CatsEndpoint == cfg.cats_url \o <<"/facts/random">>

HasTitle(b) == b.valid /\ b.title.type = "string"
HasText(b)  == b.valid /\ b.text.type = "string"

CallEvents(r) == SelectSeq(trace[r], LAMBDA e : e.ev = "call")
BodyEvents(r) == SelectSeq(trace[r], LAMBDA e : e.ev = "body")
CallUris(r) == [i \in 1..Len(CallEvents(r)) |-> CallEvents(r)[i].uri]

\* the body the to-do upstream sent this task, and the one the cat-fact
\* upstream sent it
GotTodoBody(r) == Len(BodyEvents(r)) >= 1
GotCatsBody(r) == Len(BodyEvents(r)) >= 2
TodoBody(r) == BodyEvents(r)[1].body
CatsBody(r) == BodyEvents(r)[2].body

\* number of outbound calls the task had issued before its i-th event
CallsBefore(r, i) == Cardinality({j \in 1..(i - 1) : trace[r][j].ev = "call"})

\* the to-do step failed: the request could not be built, the network call
\* or the body read failed, or the body did not decode to a title
TodoStepFailed(r) ==
    \E i \in DOMAIN trace[r] :
        \/ trace[r][i].ev = "builderr" /\ CallsBefore(r, i) = 0
        \/ trace[r][i].ev \in {"neterr", "readerr"} /\ CallsBefore(r, i) = 1
        \/ trace[r][i].ev = "body" /\ CallsBefore(r, i) = 1
              /\ ~HasTitle(trace[r][i].body)

\* the cat-fact step failed, likewise
CatsStepFailed(r) ==
    \E i \in DOMAIN trace[r] :
        \/ trace[r][i].ev = "builderr" /\ CallsBefore(r, i) = 1
        \/ trace[r][i].ev \in {"neterr", "readerr"} /\ CallsBefore(r, i) = 2
        \/ trace[r][i].ev = "body" /\ CallsBefore(r, i) = 2
              /\ ~HasText(trace[r][i].body)

StepFailed(r) == TodoStepFailed(r) \/ CatsStepFailed(r)

Is200(r, body) == result[r] = [kind |-> "ok", status |-> 200, body |-> body]
Is404(r) == result[r] = [kind |-> "ok", status |-> 404, body |-> <<>>]
IsErr(r) == result[r].kind = "err"

DoubleText(title, text) ==
    <<"T", "o", "d", "o", ":", " ">> \o title
      \o <<",", " ", "C", "a", "t", " ", "F", "a", "c", "t", ":", " ">> \o text

\* ----------------------------------------------------------------- C1
\* C1 as stated: every request route has returned from ended with a 200
\* response of the basic or double handler or with a 404 response, whatever
\* the upstreams did.
C1_AlwaysResponds ==
    \A r \in Reqs :
        pc[r] = "returned" =>
            /\ result[r].kind = "ok"
            /\ \/ result[r].status = 200 /\ (IsGetBasic(r) \/ IsGetDouble(r))
               \/ Is404(r)

\* C1, amended: every request route has returned from ended in exactly one
\* of three ways: a 200 response for GET /basic or GET /double none of whose
\* upstream steps failed, a 404 response with an empty body for any other
\* (method, path), or an error for GET /basic or GET /double one of whose
\* upstream steps failed; and route has returned exactly when there is an
\* outcome.
C1_RouteTotal ==
    \A r \in Reqs :
        /\ (pc[r] = "returned") = (result[r].kind # "pending")
        /\ pc[r] = "returned" =>
             IF IsGetBasic(r) \/ IsGetDouble(r)
             THEN IF StepFailed(r)
                  THEN IsErr(r)
                  ELSE result[r].kind = "ok" /\ result[r].status = 200
             ELSE Is404(r)

C1_Witness ==
    \E r1, r2 \in Reqs :
        /\ pc[r1] = "returned" /\ req[r1][1].method = "POST"
        /\ req[r1][1].path = "/basic" /\ Is404(r1)
        /\ pc[r2] = "returned" /\ IsGetDouble(r2) /\ IsErr(r2)

\* ----------------------------------------------------------------- C2
\* C2: a GET /basic request whose to-do upstream answered with a JSON
\* object whose title is the string T has returned status 200 with the body
\* exactly T, and has issued exactly one outbound call, to {todo_url}/todos/1.
C2_BasicTitle ==
    \A r \in Reqs :
        IsGetBasic(r) /\ GotTodoBody(r) /\ HasTitle(TodoBody(r)) =>
            /\ Is200(r, TodoBody(r).title.val)
            /\ CallUris(r) = <<TodoEndpoint>>
            /\ CatsEndpoint \notin {CallUris(r)[i] : i \in DOMAIN CallUris(r)}

C2_Witness ==
    \E r \in Reqs :
        /\ IsGetBasic(r) /\ GotTodoBody(r)
        /\ TodoBody(r) = JsonObject(String(TextSep), String(TextCat))
        /\ Is200(r, TextSep)
        /\ Calls(r) = {}

\* ----------------------------------------------------------------- C3
\* C3: a GET /double request whose to-do upstream answered with a JSON
\* object with title T and whose cat-fact upstream answered with a JSON
\* object with text F has returned status 200 with the body exactly
\* "Todo: " T ", Cat Fact: " F, T being the to-do reply's title and F the
\* cat-fact reply's text even when each reply carries the other member too.
C3_DoubleText ==
    \A r \in Reqs :
        IsGetDouble(r) /\ GotCatsBody(r)
          /\ HasTitle(TodoBody(r)) /\ HasText(CatsBody(r)) =>
            Is200(r, DoubleText(TodoBody(r).title.val, CatsBody(r).text.val))

C3_Witness ==
    \E r \in Reqs :
        /\ IsGetDouble(r) /\ GotCatsBody(r)
        /\ TodoBody(r) = JsonObject(String(TextSep), String(TextCat))
        /\ CatsBody(r) = JsonObject(String(TextSep), String(TextCat))
        /\ Is200(r, DoubleText(TextSep, TextCat))

\* ----------------------------------------------------------------- C4
\* C4: a request that is neither GET /basic nor GET /double has returned
\* status 404 with an empty body and has issued no outbound call, whatever
\* the other tasks' upstreams are doing.
C4_NotFound ==
    \A r \in Reqs :
        req[r] # <<>> /\ ~IsGetBasic(r) /\ ~IsGetDouble(r) =>
            /\ Is404(r)
            /\ trace[r] = <<>>
            /\ Calls(r) = {}

C4_Witness ==
    \E r1, r2 \in Reqs :
        /\ req[r1] # <<>> /\ req[r1][1].method = "POST"
        /\ req[r1][1].path = "/double" /\ Is404(r1)
        /\ r2 \in hung /\ trace[r1] = <<>>

\* ----------------------------------------------------------------- C5
\* C5: a GET /double request whose to-do step failed has issued no call to
\* the cat-fact upstream, and has failed.
C5_ShortCircuit ==
    \A r \in Reqs :
        IsGetDouble(r) /\ TodoStepFailed(r) =>
            /\ Len(CallUris(r)) <= 1
            /\ \A i \in DOMAIN CallUris(r) : CallUris(r)[i] = TodoEndpoint
            /\ IsErr(r)

C5_Witness ==
    \E r \in Reqs :
        /\ IsGetDouble(r) /\ TodoStepFailed(r)
        /\ GotTodoBody(r) /\ TodoBody(r) = JsonObject(Absent, String(TextSep))
        /\ IsErr(r) /\ UriParses(CatsEndpoint) /\ CatsEndpoint # TodoEndpoint

\* ----------------------------------------------------------------- C6
\* C6: a request one of whose steps failed (request construction, network
\* call, body read, decode of either reply) has ended in failure and no
\* response of it exists: no body, no 200 status.
C6_NoPartial ==
    \A r \in Reqs :
        StepFailed(r) =>
            /\ result[r] = Failed
            /\ response[r] = <<>>
            /\ pc[r] = "returned"

C6_Witness ==
    \E r \in Reqs :
        /\ IsGetDouble(r) /\ GotCatsBody(r)
        /\ HasTitle(TodoBody(r)) /\ ~HasText(CatsBody(r))
        /\ result[r] = Failed

\* ----------------------------------------------------------------- C7
\* C7: with requests in flight at once, every 200 body is built from the
\* replies to the task's own calls alone, and the client handle and the
\* ServerCfg are never modified.
OwnBody(r) ==
    IF IsGetBasic(r) THEN TodoBody(r).title.val
    ELSE DoubleText(TodoBody(r).title.val, CatsBody(r).text.val)

NoLeak ==
    \A r \in Reqs :
        /\ result[r].kind = "ok" /\ result[r].status = 200 =>
             /\ GotTodoBody(r)
             /\ IsGetDouble(r) => GotCatsBody(r)
             /\ result[r].body = OwnBody(r)
        /\ todo[r] # <<>> => GotTodoBody(r) /\ todo[r][1].title = TodoBody(r).title.val

C7_Isolation ==
    /\ []NoLeak
    /\ [][cfg' = cfg /\ client' = client]_vars

C7_Witness ==
    \E r1, r2 \in Reqs :
        /\ IsGetDouble(r1) /\ IsGetDouble(r2)
        /\ pc[r1] = "cats_body" /\ todo[r1][1].title = TextCat
        /\ result[r2].kind = "ok" /\ result[r2].status = 200
        /\ TodoBody(r2).title.val = TextSep

\* ----------------------------------------------------------------- C8
\* C8: a task whose upstream is hung never moves again (nothing times it
\* out, retries it, completes it or fails it), and every other task
\* eventually is in flight no more: once arrived it returns, whatever the
\* hung tasks do, unless its own upstream hangs.
InFlight(r) == pc[r] \in ReqPcs \cup BodyPcs

C8_HungBlocksOnlyItself ==
    /\ [][\A r \in Reqs : r \in hung =>
            /\ r \in hung'
            /\ pc'[r] = pc[r]
            /\ result'[r] = result[r]
            /\ pc[r] # "returned"]_vars
    /\ \A r \in Reqs : <>[](~InFlight(r) \/ r \in hung)

C8_Witness ==
    \E r1, r2 \in Reqs :
        /\ r1 \in hung /\ pc[r1] = "todo_req"
        /\ Len(trace[r2]) > Len(trace[r1])
        /\ IsGetDouble(r2) /\ result[r2].kind = "ok"

\* ----------------------------------------------------------------- C9
\* C9: a GET /double task has at most one outbound call outstanding, issues
\* at most two calls, the to-do call first, and has issued the cat-fact call
\* only after the to-do response arrived and its body was read and decoded.
C9_Sequential ==
    \A r \in Reqs :
        IsGetDouble(r) =>
            /\ Cardinality(Calls(r)) <= 1
            /\ Len(CallUris(r)) <= 2
            /\ Len(CallUris(r)) >= 1 => CallUris(r)[1] = TodoEndpoint
            /\ Len(CallUris(r)) = 2 =>
                 /\ CallUris(r)[2] = CatsEndpoint
                 /\ Len(trace[r]) >= 4
                 /\ trace[r][1].ev = "call"
                 /\ trace[r][2].ev = "resp"
                 /\ trace[r][3].ev = "body" /\ HasTitle(trace[r][3].body)
                 /\ trace[r][4].ev = "call"

C9_Witness ==
    \E r \in Reqs :
        /\ IsGetDouble(r) /\ Len(CallUris(r)) = 2
        /\ Calls(r) = {[owner |-> r, uri |-> CatsEndpoint]}
        /\ pc[r] = "cats_req" /\ CatsEndpoint # TodoEndpoint

\* ---------------------------------------------------------------- C10
\* C10: two requests for the same (method, path) whose upstream calls were
\* answered alike up to the statuses of the responses are in the same
\* situation: same await point, same decoded to-do, same outcome.
C10_StatusBlind ==
    \A r1, r2 \in Reqs :
        req[r1] # <<>> /\ req[r1] = req[r2] /\ trace[r1] = trace[r2] =>
            /\ pc[r1] = pc[r2]
            /\ todo[r1] = todo[r2]
            /\ result[r1] = result[r2]

C10_Witness ==
    \E r1, r2 \in Reqs :
        /\ IsGetDouble(r1) /\ IsGetDouble(r2) /\ trace[r1] = trace[r2]
        /\ pc[r1] = "cats_body" /\ res[r1][1].status = 200
        /\ pc[r2] = "cats_body" /\ res[r2][1].status = 500

====
